---- MODULE Spec2Model ----
(***************************************************************************)
(* Model of the inverse-perspective-mapping node (class IPM) of            *)
(* semantic_grid_mapping.py: parameter loading and subscriber set-up,      *)
(* the per-frame callback compute_bev with its view loop, and the pure     *)
(* geometry of apply_ipm (upper-half mask, canvas-to-ground matrix M,      *)
(* projection P, inverse homography, perspective warp).                    *)
(*                                                                         *)
(* Arithmetic is exact: reals are rationals <<n, d>> in lowest terms with  *)
(* d > 0.  Rotations are restricted to multiples of a quarter turn, whose  *)
(* sines and cosines are integers.                                         *)
(***************************************************************************)
EXTENDS Integers, Sequences, FiniteSets, TLC

(* ------------------------------ bounds --------------------------------- *)
MaxCams   == 2    \* longest topic list a parameter file supplies
MaxImgH   == 3    \* tallest source image of the masking specification
MaxImgW   == 2    \* widest source image of the masking specification
MaxPxPerM == 3    \* largest px_per_m of the geometry specification
MaxOutW   == 3    \* largest output_width of the geometry specification
MaxOutH   == 3    \* largest output_height of the geometry specification
MaxCanvas == 2    \* canvas width of the compositing specification

(* --------------------------- exact rationals --------------------------- *)
\* the value of body, with the operand a computed first (numpy evaluates the
\* operands of a call before the call)
With(a, body) == IF a = a THEN body ELSE body

Abs(x) == IF x < 0 THEN -x ELSE x

RECURSIVE GCD(_, _)
GCD(a, b) == IF b = 0 THEN a ELSE GCD(b, a % b)

RNorm(n, d) ==
  LET g == GCD(Abs(n), Abs(d))
      s == IF d < 0 THEN -1 ELSE 1
  IN  << (s * n) \div g, (s * d) \div g >>

RInt(n)    == << n, 1 >>
RAdd(a, b) == With(<< a, b >>, RNorm(a[1] * b[2] + b[1] * a[2], a[2] * b[2]))
RMul(a, b) == With(<< a, b >>, RNorm(a[1] * b[1], a[2] * b[2]))
RNeg(a)    == With(a, << -a[1], a[2] >>)
RSub(a, b) == With(<< a, b >>, RNorm(a[1] * b[2] - b[1] * a[2], a[2] * b[2]))
RDiv(a, b) == With(<< a, b >>, RNorm(a[1] * b[2], a[2] * b[1]))
RFloor(a)  == a[1] \div a[2]
RLess(a, b) == a[1] * b[2] < b[1] * a[2]

(* ------------------------------ matrices ------------------------------- *)
\* an array held by value: the same sequence, every element computed once
Arr(f) == f \o << >>

\* numpy arrays of reals: a matrix is a sequence of rows
RECURSIVE DotSum(_, _, _, _, _)
DotSum(A, B, i, j, k) ==
  IF k = 0 THEN RInt(0)
  ELSE RAdd(DotSum(A, B, i, j, k - 1), RMul(A[i][k], B[k][j]))

\* numpy.ndarray.dot for two 2-D arrays
Dot(A, B) ==
  With(<< A, B >>, 
    Arr([i \in 1..Len(A) |-> Arr([j \in 1..Len(B[1]) |-> DotSum(A, B, i, j, Len(B))])]))

\* matrix times column vector
DotVec(A, v) ==
  With(<< A, v >>, 
    LET col == [k \in 1..Len(v) |-> << v[k] >>]
        prod == Dot(A, col)
    IN  Arr([i \in 1..Len(A) |-> prod[i][1]]))

Det2(a, b, c, d) == RSub(RMul(a, d), RMul(b, c))

Det3(A) ==
  LET t1 == RMul(A[1][1], Det2(A[2][2], A[2][3], A[3][2], A[3][3]))
      t2 == RMul(A[1][2], Det2(A[2][1], A[2][3], A[3][1], A[3][3]))
      t3 == RMul(A[1][3], Det2(A[2][1], A[2][2], A[3][1], A[3][2]))
  IN  With(<< A, t1, t2, t3 >>, RAdd(RSub(t1, t2), t3))

\* cofactor of entry (i, j) of a 3x3 matrix
Cofactor(A, i, j) ==
  LET r == IF i = 1 THEN << 2, 3 >> ELSE IF i = 2 THEN << 1, 3 >> ELSE << 1, 2 >>
      c == IF j = 1 THEN << 2, 3 >> ELSE IF j = 2 THEN << 1, 3 >> ELSE << 1, 2 >>
      m == Det2(A[r[1]][c[1]], A[r[1]][c[2]], A[r[2]][c[1]], A[r[2]][c[2]])
  IN  IF (i + j) % 2 = 0 THEN m ELSE RNeg(m)

\* numpy.linalg.inv raises LinAlgError exactly on a singular matrix
Singular(A) == With(A, Det3(A)[1] = 0)

\* numpy.linalg.inv of a non-singular 3x3 matrix (adjugate over determinant)
Inv(A) ==
  With(A, 
    LET det == Det3(A)
    IN  Arr([i \in 1..3 |-> Arr([j \in 1..3 |-> RDiv(Cofactor(A, j, i), det)])]))

(* ------------------------------- config -------------------------------- *)
\* load_parameters: the config dictionary built from the three integers
MakeConfig(px_per_m, output_width, output_height) ==
  [ px_per_m      |-> px_per_m,
    output_width  |-> output_width,
    output_height |-> output_height,
    shift_x       |-> RNorm(output_width, 2),
    shift_y       |-> RNorm(output_height, 2) ]

(* ------------------------ apply_ipm: the matrices ---------------------- *)
M_2D_to_3D ==
  << << RInt(1), RInt(0), RInt(0) >>,
     << RInt(0), RInt(1), RInt(0) >>,
     << RInt(0), RInt(0), RInt(0) >>,
     << RInt(0), RInt(0), RInt(1) >> >>

\* variant: the y axis is not inverted
M_direction_NoFlip ==
  << << RInt(1), RInt(0), RInt(0) >>,
     << RInt(0), RInt(1), RInt(0) >>,
     << RInt(0), RInt(0), RInt(1) >> >>

M_direction ==
  << << RInt(1), RInt(0),  RInt(0) >>,
     << RInt(0), RInt(-1), RInt(0) >>,
     << RInt(0), RInt(0),  RInt(1) >> >>

M_shift(cfg) ==
  << << RInt(1), RInt(0), RNeg(cfg.shift_x) >>,
     << RInt(0), RInt(1), RNeg(cfg.shift_y) >>,
     << RInt(0), RInt(0), RInt(1) >> >>

M_scale(cfg) ==
  << << RNorm(1, cfg.px_per_m), RInt(0), RInt(0) >>,
     << RInt(0), RNorm(1, cfg.px_per_m), RInt(0) >>,
     << RInt(0), RInt(0), RInt(1) >> >>

\* M = (M_2D_to_3D).dot(M_scale).dot(M_direction.dot(M_shift))
M(cfg) ==
  LET left  == Dot(M_2D_to_3D, M_scale(cfg))
      right == Dot(M_direction, M_shift(cfg))
  IN  With(<< left, right >>, Dot(left, right))

(* ------------------------------- images -------------------------------- *)
\* An image is a sequence of rows, a row a sequence of pixels, a pixel a
\* triple of uint8 channel values (b, g, r).  image.shape = (Height, Width, 3).
Height(img) == Len(img)
Width(img)  == IF Len(img) = 0 THEN 0 ELSE Len(img[1])
Background  == << 0, 0, 0 >>

\* np.zeros((h, w, 3), np.uint8)
Zeros3(h, w) == Arr([r \in 1..h |-> Arr([c \in 1..w |-> Background])])

\* np.zeros(image.shape[:2], dtype="uint8")
Zeros2(h, w) == Arr([r \in 1..h |-> Arr([c \in 1..w |-> 0])])

\* cv2.rectangle(img, pt1, pt2, color, -1): fills the rectangle with the
\* inclusive corners pt1 = (x1, y1) and pt2 = (x2, y2), clipped to the array
Rectangle(img, x1, y1, x2, y2, color) ==
  With(img, 
    Arr([r \in 1..Len(img) |->
       Arr([c \in 1..Len(img[r]) |->
          IF x1 <= c - 1 /\ c - 1 <= x2 /\ y1 <= r - 1 /\ r - 1 <= y2
          THEN color ELSE img[r][c]])]))

\* bitwise and of two uint8 values
RECURSIVE And8(_, _, _)
And8(a, b, bits) ==
  IF bits = 0 THEN 0
  ELSE (a % 2) * (b % 2) + 2 * And8(a \div 2, b \div 2, bits - 1)

\* cv2.bitwise_and(src1, src2, mask=mask) into a new destination: the and
\* where the mask is non-zero, zero elsewhere
BitwiseAnd(src1, src2, mask) ==
  With(<< src1, src2, mask >>, 
    Arr([r \in 1..Len(src1) |->
       Arr([c \in 1..Len(src1[r]) |->
          IF mask[r][c] # 0
          THEN Arr([k \in 1..3 |-> And8(src1[r][c][k], src2[r][c][k], 8)])
          ELSE Background])]))

\* variant: the midline of an odd height is rounded up
MaskUpperHalf_RoundUp(image) ==
  LET input_img_height == Height(image)
      input_img_width  == Width(image)
      mask0 == Zeros2(input_img_height, input_img_width)
      mask  == Rectangle(mask0, 0, (input_img_height + 1) \div 2,
                         input_img_width, input_img_height, 255)
  IN  With(<< image, mask0, mask >>, BitwiseAnd(image, image, mask))

\* apply_ipm, "mask upper half of the image"
MaskUpperHalf(image) ==
  LET input_img_height == Height(image)
      input_img_width  == Width(image)
      mask0 == Zeros2(input_img_height, input_img_width)
      mask  == Rectangle(mask0, 0, input_img_height \div 2,
                         input_img_width, input_img_height, 255)
  IN  With(<< image, mask0, mask >>, BitwiseAnd(image, image, mask))

(* --------------------------- perspective warp -------------------------- *)
\* source pixel at 0-based (x, y), the constant border value outside
PixelAt(img, x, y) ==
  IF 0 <= x /\ x < Width(img) /\ 0 <= y /\ y < Height(img)
  THEN img[y + 1][x + 1] ELSE Background

\* bilinear sample of channel k at the real source position (sx, sy)
Sample(img, sx, sy, k) ==
  LET x0  == RFloor(sx)
      y0  == RFloor(sy)
      fx  == RSub(sx, RInt(x0))
      fy  == RSub(sy, RInt(y0))
      gx  == RSub(RInt(1), fx)
      gy  == RSub(RInt(1), fy)
      w00 == RMul(gx, gy)
      w10 == RMul(fx, gy)
      w01 == RMul(gx, fy)
      w11 == RMul(fx, fy)
      t00 == RMul(w00, RInt(PixelAt(img, x0, y0)[k]))
      t10 == RMul(w10, RInt(PixelAt(img, x0 + 1, y0)[k]))
      t01 == RMul(w01, RInt(PixelAt(img, x0, y0 + 1)[k]))
      t11 == RMul(w11, RInt(PixelAt(img, x0 + 1, y0 + 1)[k]))
      top == RAdd(t00, t10)
      bot == RAdd(t01, t11)
      v   == RAdd(top, bot)
      r   == RAdd(v, RNorm(1, 2))
  IN  With(<< fx, fy, gx, gy, w00, w10, w01, w11, t00, t10, t01, t11, top, bot, v, r >>,
           RFloor(r))

\* cv2.warpPerspective(src, M, (width, height)): M maps source to destination
\* and is inverted; every destination pixel samples the source at the
\* back-projected position, with a zero border
WarpPerspective(src, Mx, width, height) ==
  LET Hinv == Inv(Mx)
      pos(x, y) ==
        LET v == DotVec(Hinv, << RInt(x), RInt(y), RInt(1) >>)
        IN  With(v, IF v[3][1] = 0 THEN << RInt(0), RInt(0) >>
                    ELSE << RDiv(v[1], v[3]), RDiv(v[2], v[3]) >>)
  IN  With(<< src, Mx, Hinv >>,
        Arr([r \in 1..height |->
          Arr([c \in 1..width |->
             LET p == pos(c - 1, r - 1)
             IN  With(p, Arr([k \in 1..3 |-> Sample(src, p[1], p[2], k)]))])]))

\* P.dot(M) of apply_ipm, with P = K.dot(E[:-1,:])
Homography(K, E, cfg) ==
  LET Mg == M(cfg)
      P  == Dot(K, SubSeq(E, 1, 3))
  IN  With(<< Mg, P >>, Dot(P, Mg))

\* apply_ipm raises numpy.linalg.LinAlgError
ApplyIpmRaises(K, E, cfg) ==
  LET PM == Homography(K, E, cfg)
  IN  With(PM, Singular(PM))

\* apply_ipm(image, K, E) when it returns
ApplyIpm(image, K, E, cfg) ==
  LET masked == MaskUpperHalf(image)
      PM     == Homography(K, E, cfg)
      M_ipm  == Inv(PM)
  IN  With(<< masked, PM, M_ipm >>,
        WarpPerspective(masked, M_ipm, cfg.output_width, cfg.output_height))

(* ------------------------------ compositing ---------------------------- *)
\* bev_total_img == (0,0,0): the tuple broadcasts along the channel axis, so
\* the result is a boolean array of the full shape (height, width, 3)
EqBroadcast(img, t) ==
  With(img, 
    Arr([r \in 1..Len(img) |->
       Arr([c \in 1..Len(img[r]) |-> Arr([k \in 1..3 |-> img[r][c][k] = t[k]])])]))

\* variant: the assignment ignores the mask (dst[:] = src)
MaskedAssign_Unmasked(dst, mask, src) == With(<< dst, mask, src >>, src)

\* dst[mask] = src[mask] for a boolean mask of the full shape
MaskedAssign(dst, mask, src) ==
  With(<< dst, mask, src >>, 
    Arr([r \in 1..Len(dst) |->
       Arr([c \in 1..Len(dst[r]) |->
          Arr([k \in 1..3 |-> IF mask[r][c][k] THEN src[r][c][k] ELSE dst[r][c][k]])])]))

\* variant: the view replaces the canvas without a mask
AdjustBev_Overwrite(bev, output_image) == With(bev, output_image)

\* bev_total_img[bev_total_img==(0,0,0)] = output_image[bev_total_img==(0,0,0)]
AdjustBev(bev, output_image) ==
  LET mask == EqBroadcast(bev, Background)
  IN  With(<< bev, output_image, mask >>, MaskedAssign(bev, mask, output_image))

(* ------------------------ messages and transforms ---------------------- *)
\* cv_bridge.imgmsg_to_cv2(image_msg, "bgr8"): an rgb8 message has its
\* channels reversed, a bgr8 message is taken as it is
ImgmsgToCv2(image_msg) ==
  IF image_msg.encoding = "rgb8"
  THEN Arr([r \in 1..Len(image_msg.data) |->
          Arr([c \in 1..Len(image_msg.data[r]) |->
             << image_msg.data[r][c][3], image_msg.data[r][c][2], image_msg.data[r][c][1] >>])])
  ELSE image_msg.data

\* cv_bridge.cv2_to_imgmsg(bev_total_img, encoding="bgr8")
Cv2ToImgmsg(img) == [encoding |-> "bgr8", data |-> img]

\* angles are counted in quarter turns
Cos4(a) == << 1, 0, -1, 0 >>[(a % 4) + 1]
Sin4(a) == << 0, 1, 0, -1 >>[(a % 4) + 1]

\* tf_transformations.euler_from_quaternion on the half-turn quaternions
\* (x, y, z, w): (roll, pitch, yaw) in quarter turns
EulerFromQuaternion(q) ==
  CASE q = << 0, 0, 0, 1 >> -> << 0, 0, 0 >>
    [] q = << 1, 0, 0, 0 >> -> << 2, 0, 0 >>
    [] q = << 0, 1, 0, 0 >> -> << 2, 0, 2 >>
    [] q = << 0, 0, 1, 0 >> -> << 0, 0, 2 >>

\* compute_bev: the extrinsic matrix E from the looked-up transform
Extrinsic(transform) ==
  LET quaternion == transform.rotation
      rpy   == EulerFromQuaternion(quaternion)
      roll  == rpy[1]
      pitch == rpy[2]
      yaw   == rpy[3]
      Rz == << << RInt(Cos4(yaw)), RInt(-Sin4(yaw)), RInt(0) >>,
               << RInt(Sin4(yaw)), RInt(Cos4(yaw)),  RInt(0) >>,
               << RInt(0), RInt(0), RInt(1) >> >>
      Ry == << << RInt(Cos4(pitch)), RInt(0), RInt(Sin4(pitch)) >>,
               << RInt(0), RInt(1), RInt(0) >>,
               << RInt(-Sin4(pitch)), RInt(0), RInt(Cos4(pitch)) >> >>
      Rx == << << RInt(1), RInt(0), RInt(0) >>,
               << RInt(0), RInt(Cos4(roll)), RInt(-Sin4(roll)) >>,
               << RInt(0), RInt(Sin4(roll)), RInt(Cos4(roll)) >> >>
      RyRx == Dot(Ry, Rx)
      R  == Dot(Rz, RyRx)
      t  == transform.translation
      E3 == Arr([i \in 1..3 |-> R[i] \o << RInt(t[i]) >>])
  IN  With(<< RyRx, R >>, E3 \o << << RInt(0), RInt(0), RInt(0), RInt(1) >> >>)

\* np.reshape(cam_info_msg.k, (3,3)) raises ValueError
ReshapeRaises(k) == Len(k) # 9

\* np.reshape(cam_info_msg.k, (3,3))
Reshape33(k) == Arr([i \in 1..3 |-> Arr([j \in 1..3 |-> RInt(k[3 * (i - 1) + j])])])

\* a frame the buffer has no transform for
NoTransform == [rotation |-> << >>, translation |-> << >>]

\* tfBuffer.lookup_transform raises (the target frame is not in the buffer)
LookupRaises(buffer, frame_id) == buffer[frame_id] = NoTransform

\* tfBuffer.lookup_transform(frame_id, vehicle_base_link, Time(0))
LookupTransform(buffer, frame_id) == buffer[frame_id]

(* --------------------------- input universes --------------------------- *)
Min(a, b) == IF a < b THEN a ELSE b

ImageTopic(n) == << "image", n >>
InfoTopic(n)  == << "info", n >>

PxPerMValues  == {1}
OutputWidths  == {2}
OutputHeights == {2}

Blue  == << 1, 0, 0 >>
Green == << 0, 2, 0 >>
Grey  == << 3, 3, 3 >>

ImageMsgs ==
  { [encoding |-> "bgr8", data |-> << << Grey, Grey >>, << Blue, Background >> >>],
    [encoding |-> "rgb8", data |-> << << Green, Green >>, << << 4, 0, 7 >>, Green >> >>] }

FrameIds == {"camera_front", "camera_rear"}

KGood    == << 1, 0, 0, 0, 1, 0, 0, 0, 1 >>
KShort   == << 1, 0, 0, 0, 1, 0, 0, 0 >>
CameraKs == {KGood, KShort}

CamInfoMsgs == [frame_id : FrameIds, k : CameraKs]

\* the transforms the listener can receive for each camera frame
Transforms ==
  [ camera_front |->
      { [rotation |-> << 0, 0, 0, 1 >>, translation |-> << 1, 1, 1 >>],
        [rotation |-> << 1, 0, 0, 0 >>, translation |-> << 1, 1, 1 >>] },
    camera_rear |->
      { [rotation |-> << 0, 0, 0, 1 >>, translation |-> << 1, 0, 1 >>],
        [rotation |-> << 0, 0, 0, 1 >>, translation |-> << 1, 1, 0 >>] } ]

(* -------------------------------- state -------------------------------- *)
VARIABLES
  pc,               \* position: "new", "spin", "loop", "crashed", or a stage of a function specification
  image_topics_in,  \* self.image_topics_in
  info_topics_in,   \* self.info_topics_in
  config,           \* self.config
  subs,             \* the subscribers handed to the synchronizer
  tfBuffer,         \* self.tfBuffer: frame id -> transform or NoTransform
  images_with_info, \* compute_bev: the (image, camera info) pairs of the frame
  idx,              \* compute_bev: number of pairs the loop has finished
  bev_total_img,    \* compute_bev: the canvas
  pub_msg,          \* the message the current call of compute_bev gave to self.pub.publish
  pub_count,        \* publishes made by the current call of compute_bev
  exc,              \* the exception that left compute_bev, or "none"
  calls,            \* calls of compute_bev so far: 0 none, 1 one, 2 two or more
  fn_in,            \* input of a function specification
  fn_out            \* result of a function specification

vars == << pc, image_topics_in, info_topics_in, config, subs, tfBuffer,
           images_with_info, idx, bev_total_img, pub_msg, pub_count, exc,
           calls, fn_in, fn_out >>

nodeVars == << image_topics_in, info_topics_in, config, subs, tfBuffer,
               images_with_info, idx, bev_total_img, pub_msg, pub_count, exc,
               calls >>

NoMsg == [encoding |-> "none", data |-> << >>]

\* the node before IPM.__init__ has run
NodeUnbuilt ==
  /\ image_topics_in = << >>
  /\ info_topics_in = << >>
  /\ config = MakeConfig(0, 0, 0)
  /\ subs = << >>
  /\ tfBuffer = [f \in FrameIds |-> NoTransform]
  /\ images_with_info = << >>
  /\ idx = 0
  /\ bev_total_img = << >>
  /\ pub_msg = NoMsg
  /\ pub_count = 0
  /\ exc = "none"
  /\ calls = 0

Init ==
  /\ pc = "new"
  /\ NodeUnbuilt
  /\ fn_in = << >>
  /\ fn_out = << >>

(* ------------------------------ IPM.__init__ --------------------------- *)
\* zip(self.image_topics_in, self.info_topics_in)
Zip(a, b) == [n \in 1..Min(Len(a), Len(b)) |-> << a[n], b[n] >>]

\* the subs list built by the loop of __init__: image_sub, info_sub per pair
Subscribers(pairs) ==
  [n \in 1..(2 * Len(pairs)) |-> pairs[(n + 1) \div 2][2 - (n % 2)]]

\* load_parameters followed by the subscriber set-up of __init__
NodeInit ==
  /\ pc = "new"
  /\ \E nImage \in 0..MaxCams, nInfo \in 0..MaxCams,
        px_per_m \in PxPerMValues, w \in OutputWidths, h \in OutputHeights :
       /\ image_topics_in' = [n \in 1..nImage |-> ImageTopic(n)]
       /\ info_topics_in' = [n \in 1..nInfo |-> InfoTopic(n)]
       /\ config' = MakeConfig(px_per_m, w, h)
  /\ subs' = Subscribers(Zip(image_topics_in', info_topics_in'))
  /\ tfBuffer' = [f \in FrameIds |-> NoTransform]
  /\ pc' = "spin"
  /\ UNCHANGED << images_with_info, idx, bev_total_img, pub_msg, pub_count,
                  exc, calls, fn_in, fn_out >>

\* the transform listener stores a transform for a camera frame
TfReceive ==
  /\ pc = "spin"
  /\ \E f \in FrameIds :
     \E t \in Transforms[f] :
       /\ tfBuffer[f] # t
       /\ tfBuffer' = [tfBuffer EXCEPT ![f] = t]
  /\ UNCHANGED << pc, image_topics_in, info_topics_in, config, subs,
                  images_with_info, idx, bev_total_img, pub_msg, pub_count,
                  exc, calls, fn_in, fn_out >>

(* ------------------------------ compute_bev ---------------------------- *)
\* images_with_info = [(args[i], args[i+1]) for i in range(0, len(args), 2)]
PairUp(args) == [n \in 1..(Len(args) \div 2) |-> << args[2 * n - 1], args[2 * n] >>]

\* the flat argument list the synchronizer passes: one message per subscriber
FrameArgs ==
  LET n == Len(subs) \div 2
  IN  { [m \in 1..(2 * n) |->
           IF m % 2 = 1 THEN images[(m + 1) \div 2] ELSE infos[m \div 2]] :
        images \in [1..n -> ImageMsgs], infos \in [1..n -> CamInfoMsgs] }

\* the exception one pass of the loop body raises for a pair, or "none"
ViewRaises(buffer, cfg, view) ==
  LET cam_info_msg == view[2]
      E == Extrinsic(LookupTransform(buffer, cam_info_msg.frame_id))
      K == Reshape33(cam_info_msg.k)
  IN  IF LookupRaises(buffer, cam_info_msg.frame_id) THEN "LookupException"
      ELSE IF ReshapeRaises(cam_info_msg.k) THEN "ValueError"
      ELSE IF With(<< E, K >>, ApplyIpmRaises(K, E, cfg)) THEN "LinAlgError"
      ELSE "none"

\* output_image of one pass of the loop body that raises nothing
ViewOutput(buffer, cfg, view) ==
  LET image_msg    == view[1]
      cam_info_msg == view[2]
      transform    == LookupTransform(buffer, cam_info_msg.frame_id)
      E            == Extrinsic(transform)
      K            == Reshape33(cam_info_msg.k)
      image        == ImgmsgToCv2(image_msg)
  IN  With(<< E, K, image >>, ApplyIpm(image, K, E, cfg))

\* variant: the canvas is kept from the previous call instead of allocated
ComputeBevBegin_Stale ==
  /\ pc = "spin"
  /\ Len(subs) > 0
  /\ \E args \in FrameArgs : images_with_info' = PairUp(args)
  /\ bev_total_img' = IF pub_msg = NoMsg
                      THEN Zeros3(config.output_height, config.output_width)
                      ELSE pub_msg.data
  /\ idx' = 0
  /\ pub_msg' = NoMsg
  /\ pub_count' = 0
  /\ calls' = IF calls = 0 THEN 1 ELSE 2
  /\ pc' = "loop"
  /\ UNCHANGED << image_topics_in, info_topics_in, config, subs, tfBuffer,
                  exc, fn_in, fn_out >>

\* the synchronizer calls compute_bev(*args): lines up to the loop
ComputeBevBegin ==
  /\ pc = "spin"
  /\ Len(subs) > 0
  /\ \E args \in FrameArgs : images_with_info' = PairUp(args)
  /\ bev_total_img' = Zeros3(config.output_height, config.output_width)
  /\ idx' = 0
  /\ pub_msg' = NoMsg
  /\ pub_count' = 0
  /\ calls' = IF calls = 0 THEN 1 ELSE 2
  /\ pc' = "loop"
  /\ UNCHANGED << image_topics_in, info_topics_in, config, subs, tfBuffer,
                  exc, fn_in, fn_out >>

\* one pass of the loop body; an exception leaves compute_bev and rclpy.spin
\* and, not being a KeyboardInterrupt, ends the process
ComputeBevView ==
  /\ pc = "loop"
  /\ idx < Len(images_with_info)
  /\ LET view == images_with_info[idx + 1]
         e    == ViewRaises(tfBuffer, config, view)
     IN  IF e # "none"
         THEN /\ exc' = e
              /\ pc' = "crashed"
              /\ UNCHANGED << bev_total_img, idx >>
         ELSE /\ bev_total_img' = AdjustBev(bev_total_img, ViewOutput(tfBuffer, config, view))
              /\ idx' = idx + 1
              /\ UNCHANGED << pc, exc >>
  /\ UNCHANGED << image_topics_in, info_topics_in, config, subs, tfBuffer,
                  images_with_info, pub_msg, pub_count, calls, fn_in, fn_out >>

\* after the loop: convert and publish, then return to the executor (the
\* locals of the call are gone)
ComputeBevPublish ==
  /\ pc = "loop"
  /\ idx = Len(images_with_info)
  /\ pub_msg' = Cv2ToImgmsg(bev_total_img)
  /\ pub_count' = pub_count + 1
  /\ images_with_info' = << >>
  /\ idx' = 0
  /\ bev_total_img' = << >>
  /\ pc' = "spin"
  /\ UNCHANGED << image_topics_in, info_topics_in, config, subs, tfBuffer,
                  exc, calls, fn_in, fn_out >>

Next == NodeInit \/ TfReceive \/ ComputeBevBegin \/ ComputeBevView \/ ComputeBevPublish

Spec == Init /\ [][Next]_vars

(* ------------------- the frame as a function of its inputs ------------- *)
\* the warped views of a frame none of whose pairs raises
Outputs(buffer, cfg, pairs) ==
  Arr([n \in 1..Len(pairs) |-> ViewOutput(buffer, cfg, pairs[n])])

\* the canvas after the first n views, starting from a zero canvas
RECURSIVE Composite(_, _, _, _)
Composite(views, n, h, w) ==
  IF n = 0 THEN Zeros3(h, w)
  ELSE AdjustBev(Composite(views, n - 1, h, w), views[n])

(* ------------------- specification of the upper-half mask -------------- *)
MaskColours == { Background, << 255, 6, 0 >> }

MaskInputs ==
  UNION { [1..h -> [1..w -> MaskColours]] : h \in 1..MaxImgH, w \in 1..MaxImgW }

InitMask ==
  /\ pc = "mask_in"
  /\ NodeUnbuilt
  /\ fn_in \in MaskInputs
  /\ fn_out = << >>

\* apply_ipm up to the masked image
MaskApply ==
  /\ pc = "mask_in"
  /\ fn_out' = MaskUpperHalf(fn_in)
  /\ pc' = "mask_out"
  /\ UNCHANGED << nodeVars, fn_in >>

NextMask == MaskApply

SpecMask == InitMask /\ [][NextMask]_vars

(* --------------- specification of the canvas-to-ground matrix ---------- *)
GeomInputs ==
  { [cfg |-> MakeConfig(p, w, h), u |-> u, v |-> v] :
      p \in 1..MaxPxPerM, w \in 1..MaxOutW, h \in 1..MaxOutH,
      u \in 0..(MaxOutW - 1), v \in 0..(MaxOutH - 1) }

InitGeom ==
  /\ pc = "geom_in"
  /\ NodeUnbuilt
  /\ fn_in \in { g \in GeomInputs : g.u < g.cfg.output_width /\ g.v < g.cfg.output_height }
  /\ fn_out = << >>

\* M applied to the homogeneous canvas pixel (u, v, 1)
GeomApply ==
  /\ pc = "geom_in"
  /\ fn_out' = DotVec(M(fn_in.cfg), << RInt(fn_in.u), RInt(fn_in.v), RInt(1) >>)
  /\ pc' = "geom_out"
  /\ UNCHANGED << nodeVars, fn_in >>

NextGeom == GeomApply

SpecGeom == InitGeom /\ [][NextGeom]_vars

(* -------------------- specification of the compositing ----------------- *)
CompColours == { Background, Blue, Green, << 7, 0, 4 >> }

CompViews == [1..1 -> [1..MaxCanvas -> CompColours]]

InitComp ==
  /\ pc = "comp_in"
  /\ NodeUnbuilt
  /\ fn_in \in CompViews \X CompViews
  /\ fn_out = << >>

\* the view loop of compute_bev on the views in both orders
CompApply ==
  /\ pc = "comp_in"
  /\ fn_out' = << Composite(<< fn_in[1], fn_in[2] >>, 2, 1, MaxCanvas),
                  Composite(<< fn_in[2], fn_in[1] >>, 2, 1, MaxCanvas) >>
  /\ pc' = "comp_out"
  /\ UNCHANGED << nodeVars, fn_in >>

NextComp == CompApply

SpecComp == InitComp /\ [][NextComp]_vars

(* ============================== properties ============================= *)
CanvasPixels == (1..config.output_height) \X (1..config.output_width)

\* the warped views of the pairs the loop has finished
DoneOutputs == Outputs(tfBuffer, config, SubSeq(images_with_info, 1, idx))

\* the pixel of the earliest view that is not background at (r, c)
RECURSIVE FirstNonBackground(_, _, _, _)
FirstNonBackground(views, r, c, n) ==
  IF n > Len(views) THEN Background
  ELSE IF views[n][r][c] # Background THEN views[n][r][c]
  ELSE FirstNonBackground(views, r, c, n + 1)

\* C1: after the loop has processed views in input order, every canvas pixel
\* holds the whole 3-channel value of the earliest view that is not background
\* there, and is background only if no view has a non-background pixel there.
FirstWriterWinsPerPixel ==
  pc = "loop" =>
    LET views == DoneOutputs
    IN  \A p \in CanvasPixels :
          bev_total_img[p[1]][p[2]] = FirstNonBackground(views, p[1], p[2], 1)

ViewFails(n) == ViewRaises(tfBuffer, config, images_with_info[n]) # "none"

ViewSucceeds(view) == ViewRaises(tfBuffer, config, view) = "none"

\* C2: a failing view (pose lookup, singular homography, malformed intrinsics)
\* never aborts the frame nor leaves compute_bev, and the finished canvas is
\* the canvas of the same frame without the failing views.
PerViewFailureRecovered ==
  /\ pc # "crashed"
  /\ exc = "none"
  /\ (pc = "loop" /\ idx = Len(images_with_info)) =>
       LET good == SelectSeq(images_with_info, ViewSucceeds)
       IN  bev_total_img =
             Composite(Outputs(tfBuffer, config, good), Len(good),
                       config.output_height, config.output_width)

\* C3: a frame all of whose views fail still ends with exactly one publish of
\* an all-zero canvas of size output_height x output_width.
ZeroViewsStillPublished ==
  (/\ pc \in {"crashed", "spin"}
   /\ calls > 0
   /\ images_with_info # << >>
   /\ \A n \in 1..Len(images_with_info) : ViewFails(n))
  => (/\ pub_count = 1
      /\ pub_msg.data = Zeros3(config.output_height, config.output_width))

\* C4: every frame delivered to compute_bev is published exactly once, and
\* never while a view of the frame is still unprocessed.
PublishedOncePerFrame ==
  /\ pub_count <= 1
  /\ (pc = "loop" => pub_count = 0)
  /\ ((pc \in {"crashed", "spin"} /\ calls > 0) => pub_count = 1)

\* two views are never both non-background at the same place
Disjoint(A, B) ==
  \A c \in 1..MaxCanvas : A[1][c] = Background \/ B[1][c] = Background

UnionOf(A, B) ==
  << [c \in 1..MaxCanvas |-> IF A[1][c] # Background THEN A[1][c] ELSE B[1][c]] >>

\* C5: for two views that are never both non-background at the same place,
\* compositing [A, B] and [B, A] give the same canvas, the pixel-wise union.
OrderIndependentWhenDisjoint ==
  (pc = "comp_out" /\ Disjoint(fn_in[1], fn_in[2])) =>
    /\ fn_out[1] = fn_out[2]
    /\ fn_out[1] = UnionOf(fn_in[1], fn_in[2])

OrderIndependentWitness ==
  /\ pc = "comp_out"
  /\ Disjoint(fn_in[1], fn_in[2])
  /\ \E c \in 1..MaxCanvas : fn_in[1][1][c] # Background
  /\ \E c \in 1..MaxCanvas : fn_in[2][1][c] # Background
  /\ fn_out[1] # fn_in[1]

\* C6: topic lists of different lengths are a fatal error at startup: the
\* node does not get past __init__ and creates no subscriber.
LengthMismatchIsFatal ==
  (pc # "new" /\ Len(image_topics_in) # Len(info_topics_in)) =>
    (pc = "crashed" /\ subs = << >>)

\* C7: every call of compute_bev starts from an all-zero canvas, and the
\* canvas it publishes is the composite of that call's own views, a function
\* of the frame's messages, the resolved transforms and the config alone.
FramesIndependent ==
  [][ /\ (pc = "spin" /\ pc' = "loop") =>
           bev_total_img' = Zeros3(config.output_height, config.output_width)
      /\ (pc = "loop" /\ pc' = "spin") =>
           pub_msg'.data =
             Composite(Outputs(tfBuffer, config, images_with_info),
                       Len(images_with_info),
                       config.output_height, config.output_width) ]_vars

FramesIndependentWitness ==
  /\ pc = "spin"
  /\ calls >= 2
  /\ pub_count = 1
  /\ pub_msg.data # Zeros3(config.output_height, config.output_width)

\* C8: the masked image has the shape of the source image; its rows
\* 0 .. h // 2 - 1 are background and its rows h // 2 .. h - 1 are the source
\* rows, for every h and w (odd h included); the source image is not changed.
UpperHalfMasked ==
  [][ (pc = "mask_in" /\ pc' = "mask_out") =>
        /\ Height(fn_out') = Height(fn_in)
        /\ Width(fn_out') = Width(fn_in)
        /\ \A r \in 1..Height(fn_in), c \in 1..Width(fn_in) :
             fn_out'[r][c] = IF r - 1 < Height(fn_in) \div 2
                             THEN Background ELSE fn_in[r][c]
        /\ fn_in' = fn_in
        /\ config' = config ]_vars

UpperHalfMaskedWitness ==
  /\ pc = "mask_out"
  /\ Height(fn_in) % 2 = 1
  /\ Height(fn_in) >= 3
  /\ fn_in[1][1] # Background
  /\ fn_in[(Height(fn_in) \div 2) + 1][1] # Background
  /\ fn_out # fn_in

CanvasOnlyFillsIn ==
  [][ (pc = "loop" /\ pc' = "loop") =>
        LET out == ViewOutput(tfBuffer, config, images_with_info[idx + 1])
        IN  /\ Len(bev_total_img') = config.output_height
            /\ \A p \in CanvasPixels :
                 /\ Len(bev_total_img'[p[1]]) = config.output_width
                 /\ \A k \in 1..3 :
                      IF bev_total_img[p[1]][p[2]][k] # 0
                      THEN bev_total_img'[p[1]][p[2]][k] = bev_total_img[p[1]][p[2]][k]
                      ELSE bev_total_img'[p[1]][p[2]][k] \in {0, out[p[1]][p[2]][k]} ]_vars

CanvasOnlyFillsInWitness ==
  /\ pc = "loop"
  /\ idx = 2
  /\ LET views == DoneOutputs
     IN  \E p \in CanvasPixels :
           /\ \E k \in 1..3 : /\ views[1][p[1]][p[2]][k] # 0
                              /\ views[2][p[1]][p[2]][k] # 0
                              /\ views[2][p[1]][p[2]][k] # views[1][p[1]][p[2]][k]
           /\ \E k \in 1..3 : /\ views[1][p[1]][p[2]][k] = 0
                              /\ views[2][p[1]][p[2]][k] # 0
                              /\ bev_total_img[p[1]][p[2]][k] = views[2][p[1]][p[2]][k]

====
